---- MODULE Spec2Model ----
(***************************************************************************)
(* Console-Wordle: the Game class of src/index.ts (validation, scoring,    *)
(* termination check) and its readline-driven gameLoop.                    *)
(*                                                                         *)
(* A word is a sequence of one-character strings.  Array indices are       *)
(* 0-based as in the source; TLA+ sequences are 1-based, so element i of   *)
(* the source is element i + 1 here.                                       *)
(***************************************************************************)
EXTENDS Integers, Sequences, FiniteSets, TLC

VARIABLES solution, guesses, wrongLetters, unusedLetters, gameStatus,
          guessNumber, rl, input, lastCall

vars == <<solution, guesses, wrongLetters, unusedLetters, gameStatus,
          guessNumber, rl, input, lastCall>>

(***************************************************************************)
(* Bounds of the model.                                                    *)
(***************************************************************************)
\* number of words of the word list that are loaded
DictSize == 6
\* number of guesses a test pushes into the history by hand
MaxPushed == 2
\* largest guess number a test passes to checkGameOver
MaxTurnArg == 7

(***************************************************************************)
(* Program constants.                                                      *)
(***************************************************************************)
WordLen == 5
MaxGuesses == 6

Green == "[32m"
Yellow == "[33m"
Default == "[0m"
Colours == {Green, Yellow, Default}

UpperLetters ==
    <<"A","B","C","D","E","F","G","H","I","J","K","L","M",
      "N","O","P","Q","R","S","T","U","V","W","X","Y","Z">>
LowerLetters ==
    <<"a","b","c","d","e","f","g","h","i","j","k","l","m",
      "n","o","p","q","r","s","t","u","v","w","x","y","z">>
Alphabet == {UpperLetters[i] : i \in 1..26}

\* the word list read from sgb-words.txt, already upper-cased
WordList ==
    << <<"R","E","A","C","H">>,
       <<"T","E","E","T","H">>,
       <<"E","R","A","S","E">>,
       <<"T","O","U","C","H">>,
       <<"S","M","A","R","T">>,
       <<"S","N","O","U","T">>,
       <<"C","H","E","A","T">>,
       <<"A","R","T","S","Y">> >>
validWords == SubSeq(WordList, 1, DictSize)

\* arguments the tests pass to checkValidWord besides the listed words
OtherInputs ==
    { <<"r","e","a","c","h">>,
      <<"T","O","u","c","H">>,
      <<"1","2","3","4","5">>,
      <<"a","a","a","a","a">>,
      <<"n","i","g","h","t","s">>,
      <<"a","p","e">> }
RawInputs == {validWords[i] : i \in 1..Len(validWords)} \cup OtherInputs

\* lines a player types at the prompt: a listed word, a listed word in
\* lower case, a five-letter non-word, a line too long and a line too short
TypedLines ==
    {validWords[i] : i \in 1..Len(validWords)} \cup
    { <<"r","e","a","c","h">>,
      <<"a","a","a","a","a">>,
      <<"n","i","g","h","t","s">>,
      <<"a","p","e">> }

\* the thrown Error, as a value no word is equal to
Throw == <<"Error: Invalid guess!">>
NoCall == [fn |-> "none"]
\* the value of #solution when the constructor never assigned it
Undefined == <<"undefined">>
\* the TypeError of spreading a value that is not iterable
TypeError == [error |-> "TypeError: undefined is not iterable"]

(***************************************************************************)
(* String and array primitives.                                            *)
(***************************************************************************)
\* String.prototype.toUpperCase on the characters a player can type: a
\* lower-case letter becomes its capital, anything else stays as it is
capitalOf ==
    [c \in {LowerLetters[i] : i \in 1..26} |->
        UpperLetters[CHOOSE i \in 1..26 : LowerLetters[i] = c]]

toUpperCaseChar(c) == IF c \in DOMAIN capitalOf THEN capitalOf[c] ELSE c

toUpperCase(s) == [i \in 1..Len(s) |-> toUpperCaseChar(s[i])]

\* Array.prototype.indexOf: 0-based index of the first occurrence, or -1
indexOf(arr, x) ==
    IF \E i \in 1..Len(arr) : arr[i] = x
    THEN (CHOOSE i \in 1..Len(arr) :
              arr[i] = x /\ \A j \in 1..(i - 1) : arr[j] # x) - 1
    ELSE -1

\* arr[idx] = v for the indices checkCorrectness produces: an index inside
\* the array replaces the element; index -1 only creates the property "-1",
\* which is not an element and is invisible to indexing and indexOf
arrayStore(arr, idx, v) ==
    IF idx \in 0..(Len(arr) - 1) THEN [arr EXCEPT ![idx + 1] = v] ELSE arr

\* guess.map(guessLetter => guessLetter.character).join('')
characters(guess) == [i \in 1..Len(guess) |-> guess[i].character]
colours(guess) == [i \in 1..Len(guess) |-> guess[i].colour]
stringGuesses(gs) == [k \in 1..Len(gs) |-> characters(gs[k])]

(***************************************************************************)
(* ZodValidWord = z.string().length(5).toUpperCase()                       *)
(***************************************************************************)
ZodValidWord(guess) ==
    IF Len(guess) = WordLen
    THEN [success |-> TRUE, data |-> toUpperCase(guess)]
    ELSE [success |-> FALSE, data |-> << >>]

(***************************************************************************)
(* Game.checkValidWord: the validated upper-case word, or Throw.           *)
(***************************************************************************)
checkValidWordNoHistory(guess, gs) ==
    LET parsedGuess == ZodValidWord(guess)
    IN IF /\ parsedGuess.success
          /\ indexOf(validWords, parsedGuess.data) # -1
       THEN parsedGuess.data
       ELSE Throw

checkValidWordNoUpper(guess, gs) ==
    IF /\ Len(guess) = WordLen
       /\ indexOf(validWords, guess) # -1
       /\ indexOf(stringGuesses(gs), guess) = -1
    THEN guess
    ELSE Throw

checkValidWord(guess, gs) ==
    LET parsedGuess == ZodValidWord(guess)
    IN IF /\ parsedGuess.success
          /\ indexOf(validWords, parsedGuess.data) # -1
          /\ indexOf(stringGuesses(gs), parsedGuess.data) = -1
       THEN parsedGuess.data
       ELSE Throw

(***************************************************************************)
(* Game.checkCorrectness.  The loop state is a record of the locals        *)
(* comparison and checkedGuess and of the two letter sets.                 *)
(***************************************************************************)
Empty == [character |-> "", colour |-> "empty"]

\* comparison is the solution array itself, not a copy of it
RECURSIVE correctPassAliased(_, _, _)
correctPassAliased(st, guess, i) ==
    IF i >= Len(guess) THEN st
    ELSE IF st.comparison[i + 1] = guess[i + 1]
         THEN correctPassAliased(
                [st EXCEPT
                   !.checkedGuess[i + 1] =
                       [character |-> guess[i + 1], colour |-> Green],
                   !.comparison = arrayStore(st.comparison, i, "0"),
                   !.solution = arrayStore(st.solution, i, "0")],
                guess, i + 1)
         ELSE correctPassAliased(st, guess, i + 1)

RECURSIVE correctPass(_, _, _)
correctPass(st, guess, i) ==
    IF i >= Len(guess) THEN st
    ELSE IF st.comparison[i + 1] = guess[i + 1]
         THEN correctPass(
                [st EXCEPT
                   !.checkedGuess[i + 1] =
                       [character |-> guess[i + 1], colour |-> Green],
                   !.comparison = arrayStore(st.comparison, i, "0")],
                guess, i + 1)
         ELSE correctPass(st, guess, i + 1)

presentStepResetsWrong(st, c, i) ==
    [(IF st.comparison[i + 1] # "0"
      THEN IF indexOf(st.comparison, c) # -1
           THEN [st EXCEPT
                   !.checkedGuess[i + 1] =
                       [character |-> c, colour |-> Yellow]]
           ELSE [st EXCEPT
                   !.checkedGuess[i + 1] =
                       [character |-> c, colour |-> Default],
                   !.wrongLetters = {c},
                   !.comparison = arrayStore(@, indexOf(@, c), "0")]
      ELSE st)
     EXCEPT !.unusedLetters = @ \ {c}]

presentStepNoGuard(st, c, i) ==
    [(IF indexOf(st.comparison, c) # -1
      THEN [st EXCEPT
              !.checkedGuess[i + 1] =
                  [character |-> c, colour |-> Yellow]]
      ELSE [st EXCEPT
              !.checkedGuess[i + 1] =
                  [character |-> c, colour |-> Default],
              !.wrongLetters = @ \cup {c},
              !.comparison = arrayStore(@, indexOf(@, c), "0")])
     EXCEPT !.unusedLetters = @ \ {c}]

presentStepKeepsCorrect(st, c, i) ==
    IF st.comparison[i + 1] # "0"
    THEN IF indexOf(st.comparison, c) # -1
         THEN [st EXCEPT
                 !.checkedGuess[i + 1] =
                     [character |-> c, colour |-> Yellow],
                 !.unusedLetters = @ \ {c}]
         ELSE [st EXCEPT
                 !.checkedGuess[i + 1] =
                     [character |-> c, colour |-> Default],
                 !.wrongLetters = @ \cup {c},
                 !.comparison = arrayStore(@, indexOf(@, c), "0"),
                 !.unusedLetters = @ \ {c}]
    ELSE st

\* one iteration of the second loop, for position i holding character c
presentStep(st, c, i) ==
    [(IF st.comparison[i + 1] # "0"
      THEN IF indexOf(st.comparison, c) # -1
           THEN [st EXCEPT
                   !.checkedGuess[i + 1] =
                       [character |-> c, colour |-> Yellow]]
           ELSE [st EXCEPT
                   !.checkedGuess[i + 1] =
                       [character |-> c, colour |-> Default],
                   !.wrongLetters = @ \cup {c},
                   !.comparison = arrayStore(@, indexOf(@, c), "0")]
      ELSE st)
     EXCEPT !.unusedLetters = @ \ {c}]

RECURSIVE presentPass(_, _, _)
presentPass(st, guess, i) ==
    IF i >= Len(guess) THEN st
    ELSE presentPass(presentStep(st, guess[i + 1], i), guess, i + 1)

\* const comparison = [...this.#solution] throws when #solution is undefined
spreadThrows(sol) == sol = Undefined

\* st.solution is the field this.#solution, st.comparison the local copy
checkCorrectness(guess, sol, wrong, unused) ==
    IF spreadThrows(sol) THEN TypeError
    ELSE presentPass(
           correctPass([solution |-> sol,
                        comparison |-> sol,
                        checkedGuess |-> [i \in 1..WordLen |-> Empty],
                        wrongLetters |-> wrong,
                        unusedLetters |-> unused],
                       guess, 0),
           guess, 0)

(***************************************************************************)
(* Game.checkGameOver                                                      *)
(***************************************************************************)
someGreen(arr) == \E i \in 1..Len(arr) : arr[i] = Green

\* latestGuessColours.every(val => val === green); true of the empty array
everyGreen(arr) == \A i \in 1..Len(arr) : arr[i] = Green

latestGuessColours(gs) ==
    IF Len(gs) > 0 THEN colours(gs[Len(gs)]) ELSE << >>

checkGameOverNoTurnGuard(n, gs) ==
    IF everyGreen(latestGuessColours(gs)) THEN 1
    ELSE IF n >= MaxGuesses THEN 2
    ELSE 0

checkGameOverLossFirst(n, gs) ==
    IF n >= MaxGuesses THEN 2
    ELSE IF n > 1 /\ everyGreen(latestGuessColours(gs)) THEN 1
    ELSE 0

checkGameOverEarlyLoss(n, gs) ==
    IF n > 1 /\ everyGreen(latestGuessColours(gs)) THEN 1
    ELSE IF n >= MaxGuesses - 1 /\ ~everyGreen(latestGuessColours(gs)) THEN 2
    ELSE 0

checkGameOverLateLoss(n, gs) ==
    IF n > 1 /\ everyGreen(latestGuessColours(gs)) THEN 1
    ELSE IF n > MaxGuesses /\ ~everyGreen(latestGuessColours(gs)) THEN 2
    ELSE 0

checkGameOver(n, gs) ==
    IF n > 1 /\ everyGreen(latestGuessColours(gs)) THEN 1
    ELSE IF n >= MaxGuesses /\ ~everyGreen(latestGuessColours(gs)) THEN 2
    ELSE 0

(***************************************************************************)
(* Game.getEndMessage.  A message is the sequence of the pieces of its     *)
(* template literal; sol stands for this.#solution.join('').               *)
(***************************************************************************)
getEndMessageLossByDefault(status, n, sol) ==
    IF status = 1
    THEN <<"The word was ", sol, "! You got it in ", n, " guesses.">>
    ELSE <<"So close! The word was ", sol, ".">>

getEndMessage(status, n, sol) ==
    IF status = 1
    THEN <<"The word was ", sol, "! You got it in ", n, " guesses.">>
    ELSE IF status = 2
    THEN <<"So close! The word was ", sol, ".">>
    ELSE <<"Invalid status code.">>

(***************************************************************************)
(* new Game(): a random word of the list is the solution.                  *)
(***************************************************************************)
Init ==
    /\ solution \in {validWords[i] : i \in 1..Len(validWords)}
    /\ guesses = << >>
    /\ wrongLetters = {}
    /\ unusedLetters = Alphabet
    /\ gameStatus = 0
    /\ guessNumber = 1
    /\ rl = "open"
    /\ input = << >>
    /\ lastCall = NoCall

(***************************************************************************)
(* Game.gameLoop: the callback of rl.question for one line of input.       *)
(* Scored is the try block, Caught the catch block.                        *)
(***************************************************************************)
ScoredKeepsPrompting(guess) ==
    \E word \in {checkValidWord(guess, guesses)} :
    /\ word # Throw
    /\ ~spreadThrows(solution)
    /\ \E st \in {checkCorrectness(word, solution, wrongLetters, unusedLetters)} :
       \E gs \in {Append(guesses, st.checkedGuess)} :
       \E status \in {checkGameOver(guessNumber, gs)} :
       /\ input' = guess
       /\ guesses' = gs
       /\ wrongLetters' = st.wrongLetters
       /\ unusedLetters' = st.unusedLetters
       /\ gameStatus' = status
       /\ guessNumber' = guessNumber + 1
       /\ rl' = rl
       /\ solution' = st.solution
       /\ UNCHANGED lastCall

ScoredPrepends(guess) ==
    \E word \in {checkValidWord(guess, guesses)} :
    /\ word # Throw
    /\ ~spreadThrows(solution)
    /\ \E st \in {checkCorrectness(word, solution, wrongLetters, unusedLetters)} :
       \E gs \in {<<st.checkedGuess>> \o guesses} :
       \E status \in {checkGameOver(guessNumber, gs)} :
       /\ input' = guess
       /\ guesses' = gs
       /\ wrongLetters' = st.wrongLetters
       /\ unusedLetters' = st.unusedLetters
       /\ gameStatus' = status
       /\ IF status = 0
          THEN guessNumber' = guessNumber + 1 /\ rl' = rl
          ELSE guessNumber' = guessNumber /\ rl' = "closed"
       /\ solution' = st.solution
       /\ UNCHANGED lastCall

\* word, st, gs and status are the values the try block computes, in order
Scored(guess) ==
    \E word \in {checkValidWord(guess, guesses)} :
    /\ word # Throw
    /\ ~spreadThrows(solution)
    /\ \E st \in {checkCorrectness(word, solution, wrongLetters, unusedLetters)} :
       \E gs \in {Append(guesses, st.checkedGuess)} :
       \E status \in {checkGameOver(guessNumber, gs)} :
       /\ input' = guess
       /\ guesses' = gs
       /\ wrongLetters' = st.wrongLetters
       /\ unusedLetters' = st.unusedLetters
       /\ gameStatus' = status
       /\ IF status = 0
          THEN guessNumber' = guessNumber + 1 /\ rl' = rl
          ELSE guessNumber' = guessNumber /\ rl' = "closed"
       /\ solution' = st.solution
       /\ UNCHANGED lastCall

CaughtAdvances(guess) ==
    /\ checkValidWord(guess, guesses) = Throw \/ spreadThrows(solution)
    /\ input' = guess
    /\ guessNumber' = guessNumber + 1
    /\ UNCHANGED <<solution, guesses, wrongLetters, unusedLetters,
                   gameStatus, rl, lastCall>>

Caught(guess) ==
    /\ checkValidWord(guess, guesses) = Throw \/ spreadThrows(solution)
    /\ input' = guess
    /\ guessNumber' = guessNumber
    /\ UNCHANGED <<solution, guesses, wrongLetters, unusedLetters,
                   gameStatus, rl, lastCall>>

GuessAccepted == \E guess \in TypedLines : rl = "open" /\ Scored(guess)
GuessRejected == \E guess \in TypedLines : rl = "open" /\ Caught(guess)

Next == GuessAccepted \/ GuessRejected

Spec == Init /\ [][Next]_vars

(***************************************************************************)
(* new Game(solution): the constructor with its optional argument,         *)
(* followed by the game loop.  An empty or missing argument is falsy and   *)
(* takes the random branch; an argument that checkValidWord rejects is     *)
(* logged by the catch block and leaves #solution unassigned.              *)
(***************************************************************************)
NoArgument == << >>

explicitSolution(arg) ==
    IF checkValidWord(arg, << >>) # Throw
    THEN checkValidWord(arg, << >>)
    ELSE Undefined

CtorInit ==
    /\ \E arg \in RawInputs \cup {NoArgument} :
          /\ lastCall = [fn |-> "constructor", arg |-> arg]
          /\ IF arg # NoArgument
             THEN solution = explicitSolution(arg)
             ELSE solution \in {validWords[i] : i \in 1..Len(validWords)}
    /\ guesses = << >>
    /\ wrongLetters = {}
    /\ unusedLetters = Alphabet
    /\ gameStatus = 0
    /\ guessNumber = 1
    /\ rl = "open"
    /\ input = << >>

CtorSpec == CtorInit /\ [][Next]_vars

(***************************************************************************)
(* Direct calls of the public methods on a fresh game, as the unit tests   *)
(* make them: guesses.push of a hand-built Letter[], checkValidWord,       *)
(* checkCorrectness and checkGameOver.  lastCall records the call and      *)
(* what it returned.                                                       *)
(***************************************************************************)
ColourPatterns ==
    { [i \in 1..WordLen |-> Green],
      [i \in 1..WordLen |-> Yellow],
      [i \in 1..WordLen |-> Default],
      [i \in 1..WordLen |-> IF i < WordLen THEN Green ELSE Default] }

PushedWords == {validWords[1], validWords[5]}

TestPush ==
    \E w \in PushedWords, cs \in ColourPatterns :
        /\ Len(guesses) < MaxPushed
        /\ guesses' = Append(guesses,
               [i \in 1..WordLen |-> [character |-> w[i], colour |-> cs[i]]])
        /\ lastCall' = [fn |-> "push"]
        /\ UNCHANGED <<solution, wrongLetters, unusedLetters, gameStatus,
                       guessNumber, rl, input>>

TestCheckValidWord ==
    \E guess \in RawInputs :
        /\ lastCall' = [fn |-> "checkValidWord", arg |-> guess,
                        ret |-> checkValidWord(guess, guesses)]
        /\ UNCHANGED <<solution, guesses, wrongLetters, unusedLetters,
                       gameStatus, guessNumber, rl, input>>

TestCheckCorrectness ==
    \E w \in PushedWords :
        \E st \in {checkCorrectness(w, solution, wrongLetters, unusedLetters)} :
           /\ Len(guesses) < MaxPushed
           /\ guesses' = Append(guesses, st.checkedGuess)
           /\ wrongLetters' = st.wrongLetters
           /\ unusedLetters' = st.unusedLetters
           /\ lastCall' = [fn |-> "checkCorrectness", arg |-> w,
                           ret |-> st.checkedGuess]
           /\ solution' = st.solution
           /\ UNCHANGED <<gameStatus, guessNumber, rl, input>>

TestCheckGameOver ==
    \E n \in 1..MaxTurnArg :
        /\ lastCall' = [fn |-> "checkGameOver", arg |-> n,
                        ret |-> checkGameOver(n, guesses)]
        /\ UNCHANGED <<solution, guesses, wrongLetters, unusedLetters,
                       gameStatus, guessNumber, rl, input>>

\* status codes the tests pass to getEndMessage: 0, 1, 2 and one unknown
StatusArgs == 0..3
\* guess numbers passed with them: the tests' 3 and the last turn
MessageTurns == {3, MaxGuesses}

TestGetEndMessage ==
    \E status \in StatusArgs, n \in MessageTurns :
        /\ lastCall' = [fn |-> "getEndMessage", arg |-> <<status, n>>,
                        ret |-> getEndMessage(status, n, solution)]
        /\ UNCHANGED <<solution, guesses, wrongLetters, unusedLetters,
                       gameStatus, guessNumber, rl, input>>

TestNext ==
    \/ TestPush
    \/ TestCheckValidWord
    \/ TestCheckCorrectness
    \/ TestCheckGameOver
    \/ TestGetEndMessage

TestSpec == Init /\ [][TestNext]_vars

(***************************************************************************)
(* Vocabulary of the properties.                                           *)
(***************************************************************************)
Dictionary == {validWords[i] : i \in 1..Len(validWords)}
History(gs) == {characters(gs[k]) : k \in 1..Len(gs)}
AllCorrect(guess) == \A i \in 1..Len(guess) : guess[i].colour = Green
Latest == guesses[Len(guesses)]
Occurrences(word, c) == Cardinality({i \in 1..Len(word) : word[i] = c})
Credited(guess, c) ==
    Cardinality({i \in 1..Len(guess) :
                    guess[i].character = c /\ guess[i].colour \in {Green, Yellow}})

\* w is g with every lower-case letter replaced by its capital
LowerSet == {LowerLetters[j] : j \in 1..26}
FoldsTo(g, w) ==
    /\ Len(g) = Len(w)
    /\ \A i \in 1..Len(g) :
          \/ g[i] \notin LowerSet /\ w[i] = g[i]
          \/ \E j \in 1..26 : g[i] = LowerLetters[j] /\ w[i] = UpperLetters[j]

(***************************************************************************)
(* Properties of the scoring, validation and termination logic.            *)
(***************************************************************************)

\* C1: scoring conservation - in every recorded guess and for every
\* character c, the number of positions holding c that are classified
\* correct or wrong-position is at most the number of occurrences of c in
\* the solution.
ScoringConservation ==
    \A k \in 1..Len(guesses) : \A c \in Alphabet :
        Credited(guesses[k], c) <= Occurrences(solution, c)

\* C2: whenever the latest scored guess is all-correct, the status the
\* termination check produced for it is won, on every turn 1..6.
WinOnAnyTurn ==
    (Len(guesses) > 0 /\ AllCorrect(Latest)) => gameStatus = 1

\* C3: WrongLetters contains no letter that occurs in the solution.
WrongLettersAbsentFromSolution ==
    \A c \in wrongLetters : Occurrences(solution, c) = 0

\* C4: termination is stable - once the status is won or lost no step
\* changes the history, the letter sets or the status.
TerminationStable ==
    [][gameStatus # 0 =>
         UNCHANGED <<guesses, wrongLetters, unusedLetters, gameStatus>>]_vars

WonEarlyAndClosed ==
    /\ gameStatus = 1
    /\ Len(guesses) < MaxGuesses
    /\ rl = "closed"

\* C5: no-duplicate law - a line whose upper-case form is already in the
\* history is never scored, and the history never holds two guesses with
\* the same character sequence.
NoDuplicateLaw ==
    /\ [][(\E w \in History(guesses) : FoldsTo(input', w))
             => guesses' = guesses]_vars
    /\ [](\A j, k \in 1..Len(guesses) :
             j # k => characters(guesses[j]) # characters(guesses[k]))

ResubmissionRejected ==
    /\ Len(guesses) >= 2
    /\ \E k \in 1..(Len(guesses) - 1) :
          /\ FoldsTo(input, characters(guesses[k]))
          /\ input # characters(guesses[k])
    /\ guessNumber = Len(guesses) + 1

\* C6: a line that fails validation (wrong length, not a dictionary word
\* when upper-cased, or already guessed) leaves history, letter sets,
\* status and guess number unchanged, and the guess number changes only in
\* a step that records a guess.
InvalidGuessFrame ==
    [][/\ (~\E w \in Dictionary \ History(guesses) :
               Len(input') = WordLen /\ FoldsTo(input', w))
           => UNCHANGED <<guesses, wrongLetters, unusedLetters, gameStatus,
                          guessNumber, rl>>
       /\ guessNumber' # guessNumber
           => Len(guesses') = Len(guesses) + 1]_vars

InvalidLineReprompted ==
    /\ Len(guesses) = 2
    /\ guessNumber = 3
    /\ Len(input) = 3
    /\ rl = "open"

\* C7: checkValidWord returns the upper-case form of its argument exactly
\* when the argument has length 5, its upper-case form is a dictionary
\* word and that word is not in the history; otherwise it throws.
ValidatorContract ==
    lastCall.fn = "checkValidWord" =>
        LET g == lastCall.arg
            accepted == {w \in Dictionary \ History(guesses) :
                            Len(g) = WordLen /\ FoldsTo(g, w)}
        IN IF accepted # {}
           THEN lastCall.ret \in accepted
           ELSE lastCall.ret = Throw

MixedCaseAccepted ==
    /\ lastCall.fn = "checkValidWord"
    /\ lastCall.arg = <<"T","O","u","c","H">>
    /\ lastCall.ret = <<"T","O","U","C","H">>
    /\ Len(guesses) > 0

\* C8: with a latest guess that is not all-correct, checkGameOver returns
\* 2 (lost) for a guess number of at least 6 and 0 (in progress) for a
\* guess number below 6.
LossRule ==
    (/\ lastCall.fn = "checkGameOver"
     /\ Len(guesses) > 0
     /\ ~AllCorrect(Latest))
    => lastCall.ret = IF lastCall.arg >= MaxGuesses THEN 2 ELSE 0

LostAtSix ==
    /\ lastCall.fn = "checkGameOver"
    /\ lastCall.arg = MaxGuesses
    /\ lastCall.ret = 2
    /\ Len(guesses) = 2
    /\ AllCorrect(guesses[1])
    /\ ~AllCorrect(Latest)

\* C9: with an all-correct latest guess, checkGameOver returns 1 (won) for
\* every guess number from 2 to 6.
WinRuleFromTurnTwo ==
    (/\ lastCall.fn = "checkGameOver"
     /\ Len(guesses) > 0
     /\ AllCorrect(Latest)
     /\ lastCall.arg \in 2..MaxGuesses)
    => lastCall.ret = 1

WonAtSix ==
    /\ lastCall.fn = "checkGameOver"
    /\ lastCall.arg = MaxGuesses
    /\ lastCall.ret = 1
    /\ Len(guesses) > 0
    /\ AllCorrect(Latest)

\* C10: on a fresh game with no recorded guess, checkGameOver(1) returns 0.
FreshGameInProgress ==
    (/\ lastCall.fn = "checkGameOver"
     /\ lastCall.arg = 1
     /\ guesses = << >>)
    => lastCall.ret = 0

FreshGameChecked ==
    /\ lastCall.fn = "checkGameOver"
    /\ lastCall.arg = 1
    /\ guesses = << >>
    /\ lastCall.ret = 0

\* C11: monotonicity - no step of a session removes a letter from
\* WrongLetters or adds a letter to UnusedLetters.
LetterSetsMonotone ==
    [][/\ wrongLetters \subseteq wrongLetters'
       /\ unusedLetters' \subseteq unusedLetters]_vars

LettersAccumulated ==
    /\ Len(guesses) >= 2
    /\ \E c \in wrongLetters : c \notin {guesses[2][i].character : i \in 1..WordLen}
    /\ Cardinality(unusedLetters) < Cardinality(Alphabet) - WordLen

\* C12: UnusedLetters is the full 26-letter alphabet while nothing is
\* recorded, and it never holds a letter of a recorded guess, whatever the
\* classification of that letter.
UnusedDisjointFromGuessed ==
    /\ guesses = << >> => (unusedLetters = Alphabet /\ Cardinality(unusedLetters) = 26)
    /\ \A k \in 1..Len(guesses) : \A i \in 1..Len(guesses[k]) :
          guesses[k][i].character \notin unusedLetters

CorrectLetterUsed ==
    /\ Len(guesses) >= 1
    /\ \E i \in 1..WordLen :
          /\ guesses[1][i].colour = Green
          /\ guesses[1][i].character \notin unusedLetters
    /\ \E i \in 1..WordLen : guesses[1][i].colour = Yellow
    /\ \E i \in 1..WordLen : guesses[1][i].colour = Default

\* C13: a session that prompts for guesses and has read a line always has
\* a dictionary word as its solution: a constructor argument that fails
\* validation never yields a session.
SessionHasValidSolution ==
    (rl = "open" /\ input # << >>) => solution \in Dictionary

\* C14: a session never records more than 6 guesses, its status is won or
\* lost once the 6th guess is recorded, and it is in progress only with
\* fewer than 6 recorded guesses.
TerminalAfterSixGuesses ==
    /\ Len(guesses) <= MaxGuesses
    /\ Len(guesses) = MaxGuesses => gameStatus \in {1, 2}
    /\ gameStatus = 0 => Len(guesses) < MaxGuesses

SixthGuessEndsGame ==
    /\ Len(guesses) = MaxGuesses
    /\ gameStatus = 2
    /\ rl = "closed"

\* C15: getEndMessage(status, n) is the win text with the solution and n
\* for status 1, the loss text with the solution for status 2 and
\* "Invalid status code." for every other status; the call changes no
\* field of the game.
EndMessageContract ==
    /\ [](lastCall.fn = "getEndMessage" =>
            LET status == lastCall.arg[1]
                n == lastCall.arg[2]
                msg == lastCall.ret
            IN /\ status = 1 =>
                    /\ Len(msg) = 5
                    /\ msg[1] = "The word was "
                    /\ msg[2] = solution
                    /\ msg[3] = "! You got it in "
                    /\ msg[4] = n
                    /\ msg[5] = " guesses."
               /\ status = 2 =>
                    /\ Len(msg) = 3
                    /\ msg[1] = "So close! The word was "
                    /\ msg[2] = solution
                    /\ msg[3] = "."
               /\ status \notin {1, 2} =>
                    /\ Len(msg) = 1
                    /\ msg[1] = "Invalid status code.")
    /\ [][lastCall'.fn = "getEndMessage" =>
            UNCHANGED <<solution, guesses, wrongLetters, unusedLetters,
                        gameStatus, guessNumber>>]_vars

InProgressCodeRejected ==
    /\ lastCall.fn = "getEndMessage"
    /\ lastCall.arg[1] = 0
    /\ lastCall.ret = <<"Invalid status code.">>
    /\ Len(guesses) > 0

\* C16: the status is won only if the most recently recorded guess is
\* all-correct, that is, only if its character sequence is the solution.
WonOnlyIfLatestCorrect ==
    gameStatus = 1 =>
        /\ Len(guesses) > 0
        /\ AllCorrect(Latest)
        /\ characters(Latest) = solution

WonOnLastTurn ==
    /\ gameStatus = 1
    /\ Len(guesses) = MaxGuesses
    /\ characters(Latest) = solution

(***************************************************************************)
(* The two-pass scoring of the design: pass 1 marks the exact matches and  *)
(* blanks them in the working copy; pass 2 marks a remaining position      *)
(* wrong-position if its letter is still in the working copy, blanking     *)
(* the slot found, and incorrect otherwise.                                *)
(***************************************************************************)
Sentinel == "0"

RefExact(guess, sol) ==
    [i \in 1..Len(sol) |-> IF guess[i] = sol[i] THEN Sentinel ELSE sol[i]]

RECURSIVE RefRemaining(_, _, _, _, _)
RefRemaining(result, working, guess, sol, i) ==
    IF i > Len(guess) THEN result
    ELSE IF guess[i] = sol[i]
         THEN RefRemaining([result EXCEPT ![i] = Green],
                           working, guess, sol, i + 1)
    ELSE IF \E j \in 1..Len(working) : working[j] = guess[i]
         THEN LET j == CHOOSE j \in 1..Len(working) :
                          /\ working[j] = guess[i]
                          /\ \A h \in 1..(j - 1) : working[h] # guess[i]
              IN RefRemaining([result EXCEPT ![i] = Yellow],
                              [working EXCEPT ![j] = Sentinel],
                              guess, sol, i + 1)
    ELSE RefRemaining([result EXCEPT ![i] = Default],
                      working, guess, sol, i + 1)

ReferenceScore(guess, sol) ==
    RefRemaining([i \in 1..Len(guess) |-> Default], RefExact(guess, sol),
                 guess, sol, 1)

\* C17: every recorded guess carries, position by position, the
\* classification the two-pass reference scoring gives for its characters
\* and the solution.
ScoringMatchesReference ==
    \A k \in 1..Len(guesses) :
        colours(guesses[k]) = ReferenceScore(characters(guesses[k]), solution)

\* C18: every recorded guess has exactly 5 entries, each classified
\* correct, wrong-position or incorrect, correct exactly at the positions
\* that match the solution (the second pass never reclassifies a position
\* of the first), and the characters are those of the accepted line in
\* order.
EveryPositionClassifiedOnce ==
    /\ [](\A k \in 1..Len(guesses) :
            /\ Len(guesses[k]) = WordLen
            /\ \A i \in 1..WordLen :
                  /\ guesses[k][i].colour \in Colours
                  /\ guesses[k][i].colour = Green
                        <=> guesses[k][i].character = solution[i])
    /\ [][guesses' # guesses =>
            FoldsTo(input', characters(guesses'[Len(guesses')]))]_vars

MixedSecondGuess ==
    /\ Len(guesses) = 2
    /\ gameStatus = 0
    /\ \E i \in 1..WordLen : guesses[2][i].colour = Green
    /\ \E i \in 1..WordLen : guesses[2][i].colour = Default
    /\ input # characters(guesses[2])

\* C19: the history is append-only - a step either leaves it unchanged or
\* appends one entry after the existing ones, which stay as they were, and
\* an accepted line always appends.
HistoryAppendOnly ==
    [][/\ \/ guesses' = guesses
          \/ /\ Len(guesses') = Len(guesses) + 1
             /\ SubSeq(guesses', 1, Len(guesses)) = guesses
       /\ (\E w \in Dictionary \ History(guesses) :
               Len(input') = WordLen /\ FoldsTo(input', w))
           => Len(guesses') = Len(guesses) + 1]_vars

ThreeGuessesRecorded ==
    /\ Len(guesses) = 3
    /\ guessNumber = 4
    /\ rl = "open"

\* C20: no operation changes the solution - scoring writes its sentinel
\* only into its copy, and validation, the termination check and the
\* message formatting do not write it.
SolutionFixed == [][solution' = solution]_vars

ScoredWithExactMatch ==
    /\ lastCall.fn = "checkCorrectness"
    /\ \E i \in 1..WordLen : lastCall.ret[i].colour = Green
    /\ \E i \in 1..WordLen : lastCall.ret[i].colour # Green
    /\ solution \in Dictionary

GuessNumberTracksHistory ==
    /\ rl = "open" =>
          /\ guessNumber = Len(guesses) + 1
          /\ guessNumber \in 1..MaxGuesses
    /\ Len(guesses) <= MaxGuesses

LastTurnReprompted ==
    /\ rl = "open"
    /\ guessNumber = MaxGuesses
    /\ Len(guesses) = MaxGuesses - 1
    /\ ~FoldsTo(input, characters(Latest))

\* C23: the status is lost only if exactly 6 guesses are recorded and the
\* 6th is not all-correct.
LostOnlyAfterSixthGuess ==
    gameStatus = 2 =>
        /\ Len(guesses) = MaxGuesses
        /\ ~AllCorrect(guesses[MaxGuesses])

LostWithPartialMatch ==
    /\ gameStatus = 2
    /\ Len(guesses) = MaxGuesses
    /\ \E i \in 1..WordLen : guesses[MaxGuesses][i].colour = Green
    /\ \E i \in 1..WordLen : guesses[MaxGuesses][i].colour = Default

====
